---- MODULE Spec2Model ----
(***************************************************************************)
(* Reaction-counter updates of src/app.py (handle_react): the two-step     *)
(* conditional update against the DynamoDB table, followed by the          *)
(* auto-delete of a quote that received more than 10 reports.              *)
(*                                                                         *)
(* The table is a partial function from quote ids to items; an item is a   *)
(* partial function from attribute names to values, so that                *)
(* attribute_exists(reactions) is "reactions" \in DOMAIN item.  Each       *)
(* concurrent request handler is a process; every table call of the        *)
(* handler (update_item, update_item, delete_item) is one atomic step.     *)
(***************************************************************************)
EXTENDS Integers, FiniteSets, Sequences, TLC

\* ---- bounds of the model ----
MaxProcs == 2
MaxCalls == 3
MaxFaults == 1
MaxScenarioCalls == 13

\* ---- program constants ----
ReportThreshold == 10

Procs == 1..MaxProcs
IDs == {"q1"}
Names == {"laugh", "like", "report"}
Methods == {"PUT", "OPTIONS"}

VARIABLES
    store,      \* the table: quote id -> item, for the ids that have an item
    pc,         \* per handler: "idle", "fast", "migrate" or "delete"
    arg,        \* per handler: quote_id and reaction_name of its request
    resp,       \* per handler: response['Attributes'] of its last update_item
    result,     \* per handler: what its last request returned
    budget,     \* requests that may still arrive
    faults,     \* table calls that failed with an error other than the condition
    store0,     \* history: the table before the first request
    issued,     \* history: id -> name -> requests that reached the table
    deleted,    \* history: ids whose item a delete_item removed
    missing,    \* history, per handler: the item was absent at some moment of its request
    overlapped, \* history: some request arrived while another was in the handler
    applied,    \* history, per handler: update_item calls of its request that took effect
    scenario    \* history: position in the sequential scenario, -1 once left

vars == <<store, pc, arg, resp, result, budget, faults, store0, issued,
          deleted, missing, overlapped, applied, scenario>>

\* ---- partial functions ----
EmptyItem == [a \in {} |-> 0]

Put(f, k, v) == [x \in (DOMAIN f) \cup {k} |-> IF x = k THEN v ELSE f[x]]

Remove(f, k) == [x \in (DOMAIN f) \ {k} |-> f[x]]

RECURSIVE SumOver(_, _)
SumOver(f, S) ==
    IF S = {} THEN 0
    ELSE LET x == CHOOSE y \in S : TRUE IN f[x] + SumOver(f, S \ {x})

MapSum(m) == SumOver(m, DOMAIN m)

\* ---- the table's view of an item ----
\* The item a conditional update sees: the stored one, or an empty one.
ItemOf(tbl, id) == IF id \in DOMAIN tbl THEN tbl[id] ELSE EmptyItem

HasReactions(item) == "reactions" \in DOMAIN item

Reactions(item) == IF HasReactions(item) THEN item["reactions"] ELSE EmptyItem

Count(item, name) ==
    IF name \in DOMAIN Reactions(item) THEN Reactions(item)[name] ELSE 0

\* ---- the three table calls of handle_react ----
\* ADD #reactions.#reaction_name :val, under attribute_exists(#reactions)
FastCondition(item) == HasReactions(item)

FastWriteSet(item, name) ==
    Put(item, "reactions", Put(item["reactions"], name, 1))

FastWriteOnly(item, name) ==
    Put(item, "reactions", Put(EmptyItem, name, Count(item, name) + 1))

FastWrite(item, name) ==
    Put(item, "reactions", Put(item["reactions"], name, Count(item, name) + 1))

\* SET #reactions = :initial_map, under attribute_not_exists(#reactions);
\* update_item adds the item when the key has none.
MigrateConditionAlways(item) == TRUE

MigrateCondition(item) == ~HasReactions(item)

MigrateWriteReplace(item, id, name) ==
    Put(Put(EmptyItem, "id", id), "reactions", Put(EmptyItem, name, 1))

MigrateWriteZero(item, id, name) ==
    Put(Put(item, "id", id), "reactions", Put(EmptyItem, name, 0))

MigrateWrite(item, id, name) ==
    Put(Put(item, "id", id), "reactions", Put(EmptyItem, name, 1))

\* ReturnValues='ALL_NEW': the item as it is after the update.
ReturnValuesOld(old, new) == old

ReturnValues(old, new) == new

\* delete_item(Key): succeeds whether or not the key has an item.
DeleteWrite(tbl, id) == Remove(tbl, id)

DeleteOutcomeStrict(tbl, id) == IF id \in DOMAIN tbl THEN "Deleted" ELSE "NotFound"

\* delete_item carries no condition: the handler goes on to its 200 response.
DeleteOutcome(tbl, id) == "Deleted"

NeedsDeleteAtThreshold(name, attrs) ==
    name = "report" /\ Count(attrs, "report") >= ReportThreshold

NeedsDeleteAnyName(name, attrs) == Count(attrs, "report") > ReportThreshold

NeedsDeleteLate(name, attrs) ==
    name = "report" /\ Count(attrs, "report") > ReportThreshold + 1

\* reaction_name == 'report' and reactions.report > 10
NeedsDelete(name, attrs) ==
    name = "report" /\ Count(attrs, "report") > ReportThreshold

\* ---- the sequential scenario q1: like, like, then reports ----
ScenarioLen == 2 + ReportThreshold + 1

ScenarioName(k) == IF k <= 2 THEN "like" ELSE "report"

\* ---- initial tables ----
LegacyItem(id) == [id |-> id, name |-> "n", quote |-> "text", timestamp |-> 1]

ZeroMap == [n \in Names |-> 0]

InitMaps == {ZeroMap, Put(EmptyItem, "report", 9), [laugh |-> 10, report |-> 10]}

InitItems(id) ==
    {LegacyItem(id)} \cup {Put(LegacyItem(id), "reactions", m) : m \in InitMaps}

RECURSIVE Tables(_)
Tables(S) ==
    IF S = {} THEN {EmptyItem}
    ELSE LET id == CHOOSE x \in S : TRUE
             rest == Tables(S \ {id})
         IN rest \cup {Put(t, id, it) : t \in rest, it \in InitItems(id)}

NoArg == [id |-> "q1", name |-> ""]

InitCommon ==
    /\ pc = [p \in Procs |-> "idle"]
    /\ arg = [p \in Procs |-> NoArg]
    /\ resp = [p \in Procs |-> EmptyItem]
    /\ result = [p \in Procs |-> "None"]
    /\ faults = 0
    /\ store0 = store
    /\ issued = [id \in IDs |-> [n \in Names |-> 0]]
    /\ deleted = {}
    /\ missing = [p \in Procs |-> FALSE]
    /\ overlapped = FALSE
    /\ applied = [p \in Procs |-> 0]

Init ==
    /\ store \in Tables(IDs)
    /\ budget = MaxCalls
    /\ scenario = -1
    /\ InitCommon

InitScenario ==
    /\ store = Put(EmptyItem, "q1", LegacyItem("q1"))
    /\ budget = MaxScenarioCalls
    /\ scenario = 0
    /\ InitCommon

\* ---- handler steps ----
Others(p) == Procs \ {p}

AfterUpdateFallThrough(p, attrs) ==
    IF pc[p] = "fast"
    THEN /\ pc' = [pc EXCEPT ![p] = "migrate"]
         /\ result' = result
    ELSE /\ pc' = [pc EXCEPT ![p] = "idle"]
         /\ result' = [result EXCEPT ![p] = "Updated"]

\* Where the handler goes once an update_item returned attrs.
AfterUpdate(p, attrs) ==
    IF NeedsDelete(arg[p].name, attrs)
    THEN /\ pc' = [pc EXCEPT ![p] = "delete"]
         /\ result' = result
    ELSE /\ pc' = [pc EXCEPT ![p] = "idle"]
         /\ result' = [result EXCEPT ![p] = "Updated"]

OnConflictRetry(p) ==
    /\ pc' = [pc EXCEPT ![p] = "fast"]
    /\ result' = result

\* The second update_item's ConditionalCheckFailedException reaches the outer
\* except clause: 404, "Quote not found".
OnConflict(p) ==
    /\ pc' = [pc EXCEPT ![p] = "idle"]
    /\ result' = [result EXCEPT ![p] = "NotFound"]

FailAsNotFound(p) ==
    /\ faults < MaxFaults
    /\ faults' = faults + 1
    /\ pc' = [pc EXCEPT ![p] = "idle"]
    /\ result' = [result EXCEPT ![p] = "NotFound"]
    /\ scenario' = -1
    /\ UNCHANGED <<store, arg, resp, budget, store0, issued, deleted, missing,
                   overlapped, applied>>

\* Any other failure of a table call: 500.
Fail(p) ==
    /\ faults < MaxFaults
    /\ faults' = faults + 1
    /\ pc' = [pc EXCEPT ![p] = "idle"]
    /\ result' = [result EXCEPT ![p] = "Error"]
    /\ scenario' = -1
    /\ UNCHANGED <<store, arg, resp, budget, store0, issued, deleted, missing,
                   overlapped, applied>>

\* A request arrives: OPTIONS, not JSON, no reaction name, or the first update.
Begin(p) ==
    /\ pc[p] = "idle"
    /\ budget > 0
    /\ \E method \in Methods, isJson \in BOOLEAN, id \in IDs, name \in Names \cup {""} :
        /\ budget' = budget - 1
        /\ IF method = "OPTIONS"
           THEN /\ result' = [result EXCEPT ![p] = "NoContent"]
                /\ scenario' = -1
                /\ UNCHANGED <<pc, arg, resp, issued, missing, overlapped, applied>>
           ELSE IF ~isJson \/ name = ""
           THEN /\ result' = [result EXCEPT ![p] = "BadRequest"]
                /\ scenario' = -1
                /\ UNCHANGED <<pc, arg, resp, issued, missing, overlapped, applied>>
           ELSE /\ pc' = [pc EXCEPT ![p] = "fast"]
                /\ arg' = [arg EXCEPT ![p] = [id |-> id, name |-> name]]
                /\ resp' = [resp EXCEPT ![p] = EmptyItem]
                /\ result' = [result EXCEPT ![p] = "None"]
                /\ issued' = [issued EXCEPT ![id][name] = @ + 1]
                /\ missing' = [missing EXCEPT ![p] = id \notin DOMAIN store]
                /\ overlapped' = (overlapped \/ \E q \in Others(p) : pc[q] # "idle")
                /\ applied' = [applied EXCEPT ![p] = 0]
                /\ scenario' =
                       IF /\ scenario >= 0
                          /\ scenario < ScenarioLen
                          /\ \A q \in Others(p) : pc[q] = "idle"
                          /\ id = "q1"
                          /\ name = ScenarioName(scenario + 1)
                       THEN scenario + 1
                       ELSE -1
    /\ UNCHANGED <<store, faults, store0, deleted>>

\* First update_item: the increment, if the reactions map exists.
FastPath(p) ==
    /\ pc[p] = "fast"
    /\ \/ Fail(p)
       \/ LET id == arg[p].id
              item == ItemOf(store, id)
          IN /\ IF FastCondition(item)
                THEN LET new == FastWrite(item, arg[p].name)
                         attrs == ReturnValues(item, new)
                     IN /\ store' = Put(store, id, new)
                        /\ resp' = [resp EXCEPT ![p] = attrs]
                        /\ applied' = [applied EXCEPT ![p] = @ + 1]
                        /\ AfterUpdate(p, attrs)
                ELSE /\ pc' = [pc EXCEPT ![p] = "migrate"]
                     /\ UNCHANGED <<store, resp, result, applied>>
             /\ UNCHANGED <<arg, budget, faults, store0, issued, deleted,
                            missing, overlapped, scenario>>

\* Second update_item: create the map. Its failed condition leaves the
\* handler through the outer except clause, as "Quote not found".
Migrate(p) ==
    /\ pc[p] = "migrate"
    /\ \/ Fail(p)
       \/ LET id == arg[p].id
              item == ItemOf(store, id)
          IN /\ IF MigrateCondition(item)
                THEN LET new == MigrateWrite(item, id, arg[p].name)
                         attrs == ReturnValues(item, new)
                     IN /\ store' = Put(store, id, new)
                        /\ resp' = [resp EXCEPT ![p] = attrs]
                        /\ applied' = [applied EXCEPT ![p] = @ + 1]
                        /\ AfterUpdate(p, attrs)
                ELSE /\ OnConflict(p)
                     /\ UNCHANGED <<store, resp, applied>>
             /\ UNCHANGED <<arg, budget, faults, store0, issued, deleted,
                            missing, overlapped, scenario>>

\* delete_item of a quote with more than 10 reports.
Delete(p) ==
    /\ pc[p] = "delete"
    /\ \/ Fail(p)
       \/ LET id == arg[p].id
          IN /\ store' = DeleteWrite(store, id)
             /\ deleted' = IF id \in DOMAIN store THEN deleted \cup {id} ELSE deleted
             /\ missing' = [q \in Procs |->
                              missing[q] \/ (q # p /\ pc[q] # "idle" /\ arg[q].id = id)]
             /\ pc' = [pc EXCEPT ![p] = "idle"]
             /\ result' = [result EXCEPT ![p] = DeleteOutcome(store, id)]
             /\ UNCHANGED <<arg, resp, budget, faults, store0, issued, overlapped,
                            applied, scenario>>

Step(p) == Begin(p) \/ FastPath(p) \/ Migrate(p) \/ Delete(p)

Next == \E p \in Procs : Step(p)

Spec == Init /\ [][Next]_vars

\* One client that sends its requests one after the other.
NextScenario == Step(1)

SpecScenario == InitScenario /\ [][NextScenario]_vars

\* ---- properties ----
AllIdle == \A p \in Procs : pc[p] = "idle"

TotalIssued(id) == SumOver(issued[id], Names)

\* The handler's last request went through the table calls and returned.
Returned(p) == pc[p] = "idle" /\ result[p] \in {"Updated", "Deleted", "NotFound"}

WasLegacy(id) == id \in DOMAIN store0 /\ ~HasReactions(store0[id])

WasMigrated(id) == id \in DOMAIN store0 /\ HasReactions(store0[id])

\* C1: on an item that started without a reactions map, with no table error
\* and no delete, once every request has returned the values of the map sum
\* to the number of requests made on the item.
C1_MigrationRaceSafety ==
    \A id \in IDs :
        (WasLegacy(id) /\ faults = 0 /\ id \notin deleted /\ AllIdle)
            => MapSum(Reactions(ItemOf(store, id))) = TotalIssued(id)

\* C2: on an item whose reactions map existed from the start, with no table
\* error and only "laugh" requests, once every request has returned
\* reactions.laugh is its initial value plus the number of requests.
C2_ExactlyOnceMigrated ==
    \A id \in IDs :
        (/\ WasMigrated(id)
         /\ faults = 0
         /\ AllIdle
         /\ \A n \in Names \ {"laugh"} : issued[id][n] = 0)
            => /\ id \in DOMAIN store
               /\ Count(store[id], "laugh")
                      = Count(store0[id], "laugh") + issued[id]["laugh"]

C2_Witness ==
    /\ WasMigrated("q1")
    /\ faults = 0
    /\ AllIdle
    /\ overlapped
    /\ issued["q1"] = [n \in Names |-> IF n = "laugh" THEN MaxCalls ELSE 0]
    /\ Count(store["q1"], "laugh") = Count(store0["q1"], "laugh") + MaxCalls

\* C3: a request on an item that exists during the whole request never
\* returns "Quote not found".
C3_RaceResolution ==
    \A p \in Procs : (pc[p] = "idle" /\ result[p] = "NotFound") => missing[p]

\* C4: a request that finds no item under its id, with no other request
\* running and no table error, returns "Quote not found".
C4_AbsentIsNotFound ==
    \A p \in Procs :
        (pc[p] = "idle" /\ result[p] \in {"Updated", "Deleted", "NotFound"}
            /\ missing[p] /\ ~overlapped /\ faults = 0)
            => result[p] = "NotFound"

\* C5: an id whose item was deleted has no item in any later state.
C5_DeletionPermanent == \A id \in deleted : id \notin DOMAIN store

\* C6: when a "report" request whose update was applied returns without a
\* table error, a new report count of at most 10 means it returns the
\* attributes and the item is in the table, a count above 10 means it
\* returns the deletion and the item is gone.
C6_ThresholdBoundary ==
    [][\A p \in Procs :
          (/\ pc[p] # "idle"
           /\ pc'[p] = "idle"
           /\ faults' = faults
           /\ arg[p].name = "report"
           /\ HasReactions(resp'[p]))
              => IF Count(resp'[p], "report") <= ReportThreshold
                 THEN result'[p] = "Updated" /\ arg[p].id \in DOMAIN store'
                 ELSE result'[p] = "Deleted" /\ arg[p].id \notin DOMAIN store']_vars

C6_Witness ==
    \E p, q \in Procs :
        /\ Returned(p) /\ Returned(q)
        /\ arg[p].name = "report" /\ arg[q].name = "report"
        /\ Count(resp[p], "report") = ReportThreshold
        /\ result[p] = "Updated"
        /\ Count(resp[q], "report") = ReportThreshold + 1
        /\ result[q] = "Deleted"

\* C7: a request whose reaction is not "report" never reaches delete_item.
C7_ModerationAsymmetry ==
    \A p \in Procs : arg[p].name # "report" => pc[p] # "delete"

C7_Witness ==
    \E p \in Procs :
        /\ Returned(p)
        /\ arg[p].name = "laugh"
        /\ result[p] = "Updated"
        /\ Count(resp[p], "laugh") > ReportThreshold
        /\ Count(resp[p], "report") > ReportThreshold

\* C8: two requests that both got a report count above 10 from their update
\* and met no table error both return the deletion, whichever delete_item
\* ran first.
C8_IdempotentDelete ==
    \A p, q \in Procs :
        (/\ p # q
         /\ pc[p] = "idle" /\ pc[q] = "idle"
         /\ result[p] \in {"Updated", "Deleted", "NotFound"}
         /\ result[q] \in {"Updated", "Deleted", "NotFound"}
         /\ arg[p].name = "report" /\ arg[q].name = "report"
         /\ Count(resp[p], "report") > ReportThreshold
         /\ Count(resp[q], "report") > ReportThreshold)
            => result[p] = "Deleted" /\ result[q] = "Deleted"

C8_Witness ==
    \E p, q \in Procs :
        /\ p # q
        /\ overlapped
        /\ pc[p] = "idle" /\ pc[q] = "idle"
        /\ Count(resp[p], "report") = ReportThreshold + 1
        /\ Count(resp[q], "report") = ReportThreshold + 2
        /\ result[p] = "Deleted" /\ result[q] = "Deleted"
        /\ "q1" \notin DOMAIN store

\* What the scenario's k-th request leaves in reactions.
ScenarioMap(k) ==
    IF k <= 2 THEN Put(EmptyItem, "like", k)
    ELSE Put(Put(EmptyItem, "like", 2), "report", k - 2)

\* C9 (as amended): in the scenario, each of the first twelve requests (two
\* likes, ten reports) returns the counts so far and leaves the item in the
\* table with them; the eleventh report deletes the item.
C9_Scenario ==
    (scenario >= 1 /\ pc[1] = "idle") =>
        IF scenario < ScenarioLen
        THEN /\ result[1] = "Updated"
             /\ Reactions(resp[1]) = ScenarioMap(scenario)
             /\ "q1" \in DOMAIN store
             /\ Reactions(store["q1"]) = ScenarioMap(scenario)
        ELSE /\ result[1] = "Deleted"
             /\ "q1" \notin DOMAIN store

C9_Witness ==
    /\ scenario = ScenarioLen
    /\ pc[1] = "idle"
    /\ result[1] = "Deleted"
    /\ Count(resp[1], "report") = ReportThreshold + 1
    /\ "q1" \notin DOMAIN store

\* C9 (as stated): after two likes and nine reports, one more report deletes
\* the item.
C9_TenthReportDeletes ==
    (scenario = 2 + 9 + 1 /\ pc[1] = "idle") => "q1" \notin DOMAIN store

OtherAttributes(item) == [a \in (DOMAIN item) \ {"reactions"} |-> item[a]]

\* C10: no step changes an attribute other than reactions of an item that is
\* in the table before and after the step.
C10_UnaffectedFields ==
    [][\A id \in IDs :
          (id \in DOMAIN store /\ id \in DOMAIN store')
              => OtherAttributes(store'[id]) = OtherAttributes(store[id])]_vars

C10_Witness ==
    /\ WasLegacy("q1")
    /\ "q1" \in DOMAIN store
    /\ "q1" \notin deleted
    /\ MapSum(Reactions(store["q1"])) >= 2
    /\ OtherAttributes(store["q1"]) = LegacyItem("q1")

\* C11: on an item that started without a reactions map, a single request
\* with no table error leaves reactions = {name: 1} and returns that map.
C11_MigrationCorrectness ==
    \A p \in Procs :
        (/\ WasLegacy(arg[p].id)
         /\ TotalIssued(arg[p].id) = 1
         /\ faults = 0
         /\ Returned(p))
            => /\ result[p] = "Updated"
               /\ Reactions(resp[p]) = Put(EmptyItem, arg[p].name, 1)
               /\ arg[p].id \in DOMAIN store
               /\ Reactions(store[arg[p].id]) = Put(EmptyItem, arg[p].name, 1)

C11_Witness ==
    \E p \in Procs :
        /\ WasLegacy("q1")
        /\ TotalIssued("q1") = 1
        /\ faults = 0
        /\ Returned(p)
        /\ arg[p].name = "laugh"
        /\ applied[p] = 1
        /\ store["q1"] = Put(LegacyItem("q1"), "reactions", [laugh |-> 1])

\* C12: from one state to the next no counter of an item that stays in the
\* table gets a smaller value.
C12_CounterMonotonic ==
    [][\A id \in IDs : \A n \in Names :
          (id \in DOMAIN store /\ id \in DOMAIN store')
              => Count(store'[id], n) >= Count(store[id], n)]_vars

C12_Witness ==
    /\ "q1" \in DOMAIN store
    /\ "q1" \notin deleted
    /\ \E n \in Names : Count(store["q1"], n) >= Count(ItemOf(store0, "q1"), n) + 2
    /\ \E n \in Names : Count(ItemOf(store0, "q1"), n) >= ReportThreshold

\* Position of a handler in its request; every table call moves it forward.
Rank(l) == CASE l = "fast" -> 1 [] l = "migrate" -> 2 [] l = "delete" -> 3
             [] OTHER -> 4

\* C13: every step of a request moves the handler forward (first update,
\* second update, delete, return), a request in the handler can always take
\* its next step, and what it returns is one of the four outcomes.
C13_BoundedTermination ==
    /\ [](\A p \in Procs :
             pc[p] # "idle" => ENABLED (FastPath(p) \/ Migrate(p) \/ Delete(p)))
    /\ [][\A p \in Procs :
             (pc[p] # "idle" /\ pc'[p] # pc[p])
                 => /\ Rank(pc'[p]) > Rank(pc[p])
                    /\ pc'[p] = "idle"
                          => result'[p] \in {"Updated", "Deleted", "NotFound", "Error"}]_vars

C13_Witness ==
    \E p, q \in Procs :
        /\ p # q
        /\ pc[p] = "idle" /\ pc[q] = "idle"
        /\ result[p] = "NotFound"
        /\ ~missing[p]
        /\ result[q] = "Updated"
        /\ overlapped

\* C14: the second update_item changes the table only when the item has no
\* reactions map, and no step removes a name from the map of an item that
\* stays in the table or removes the map.
C14_NoWholesaleReplace ==
    [][/\ \A p \in Procs :
             (pc[p] = "migrate" /\ pc'[p] # pc[p] /\ store' # store)
                 => ~HasReactions(ItemOf(store, arg[p].id))
       /\ \A id \in IDs :
             (id \in DOMAIN store /\ HasReactions(store[id]) /\ id \in DOMAIN store')
                 => /\ HasReactions(store'[id])
                    /\ DOMAIN Reactions(store[id]) \subseteq DOMAIN Reactions(store'[id])]_vars

C14_Witness ==
    \E p, q \in Procs :
        /\ p # q
        /\ WasLegacy("q1")
        /\ "q1" \notin deleted
        /\ pc[p] = "idle"
        /\ result[p] = "NotFound"
        /\ applied[p] = 0
        /\ applied[q] = 1
        /\ arg[p].name # arg[q].name
        /\ Reactions(store["q1"]) = Put(EmptyItem, arg[q].name, 1)

\* C15: the attributes an update returns are the item as that update left
\* it; hence two requests for the same counter of an item that had its map
\* from the start and was never deleted hold different values of it, each
\* between initial + 1 and initial + number of requests.
C15_ReturnsOwnWrite ==
    /\ [][\A p \in Procs :
             (pc[p] \in {"fast", "migrate"} /\ pc'[p] # pc[p] /\ store' # store)
                 => resp'[p] = store'[arg[p].id]]_vars
    /\ [](\A p, q \in Procs :
             (/\ p # q
              /\ arg[p] = arg[q]
              /\ applied[p] = 1 /\ applied[q] = 1
              /\ WasMigrated(arg[p].id)
              /\ arg[p].id \notin deleted)
                 => LET n == arg[p].name
                        c0 == Count(store0[arg[p].id], n)
                    IN /\ Count(resp[p], n) # Count(resp[q], n)
                       /\ Count(resp[p], n) \in (c0 + 1)..(c0 + issued[arg[p].id][n]))

C15_Witness ==
    \E p, q \in Procs :
        /\ p # q
        /\ overlapped
        /\ WasMigrated("q1")
        /\ arg[p].name = "laugh" /\ arg[q].name = "laugh"
        /\ result[p] = "Updated" /\ result[q] = "Updated"
        /\ pc[p] = "idle" /\ pc[q] = "idle"
        /\ Count(resp[p], "laugh") = Count(store0["q1"], "laugh") + 1
        /\ Count(resp[q], "laugh") = Count(store0["q1"], "laugh") + 2

\* C16: the first update_item, when it takes effect, adds 1 to the counter
\* of its reaction (0 if the map has no such name) and changes no other
\* entry of the map.
C16_IncrementByOne ==
    [][\A p \in Procs :
          (pc[p] = "fast" /\ pc'[p] # pc[p] /\ store' # store)
              => LET id == arg[p].id
                     old == Reactions(store[id])
                     new == Reactions(store'[id])
                 IN /\ HasReactions(store[id])
                    /\ DOMAIN new = DOMAIN old \cup {arg[p].name}
                    /\ new[arg[p].name] = Count(store[id], arg[p].name) + 1
                    /\ \A n \in DOMAIN old \ {arg[p].name} : new[n] = old[n]]_vars

C16_Witness ==
    /\ "q1" \in DOMAIN store0
    /\ Reactions(store0["q1"]) = Put(EmptyItem, "report", 9)
    /\ "q1" \in DOMAIN store
    /\ Reactions(store["q1"]) = [laugh |-> 1, report |-> 9]

\* C17: a table error on the first or on the second update_item ends the
\* request with Error, leaves the table as it is, and no update of that
\* request has taken effect.
C17_ErrorPropagates ==
    [][\A p \in Procs :
          (pc[p] \in {"fast", "migrate"} /\ pc'[p] # pc[p] /\ faults' # faults)
              => /\ pc'[p] = "idle"
                 /\ result'[p] = "Error"
                 /\ store' = store
                 /\ applied'[p] = 0]_vars

C17_Witness ==
    \E p \in Procs :
        /\ pc[p] = "idle"
        /\ result[p] = "Error"
        /\ applied[p] = 0
        /\ faults = 1
        /\ WasLegacy("q1")
        /\ store = store0

\* C18: with no table error, an item whose report count is above 10 has a
\* delete_item of some request pending; so once every request has returned
\* no item has a report count above 10.
C18_ThresholdEnforced ==
    faults = 0 =>
        \A id \in DOMAIN store :
            Count(store[id], "report") > ReportThreshold
                => \E p \in Procs : pc[p] = "delete" /\ arg[p].id = id

C18_Witness ==
    /\ faults = 0
    /\ AllIdle
    /\ "q1" \in deleted
    /\ "q1" \notin DOMAIN store
    /\ \E p \in Procs : result[p] = "Deleted"
                          /\ Count(resp[p], "report") = ReportThreshold + 1

\* C19: with no table error, a request that returned the attributes or the
\* deletion had exactly one of its two updates take effect, and one that
\* returned "Quote not found" had none.
C19_PathsExclusive ==
    \A p \in Procs :
        (faults = 0 /\ pc[p] = "idle")
            => /\ result[p] \in {"Updated", "Deleted"} => applied[p] = 1
               /\ result[p] = "NotFound" => applied[p] = 0

C19_Witness ==
    \E p, q \in Procs :
        /\ faults = 0
        /\ pc[p] = "idle" /\ pc[q] = "idle"
        /\ "q1" \notin DOMAIN store0
        /\ overlapped
        /\ result[p] = "NotFound" /\ applied[p] = 0
        /\ result[q] = "Updated" /\ applied[q] = 1

\* C20: a delete_item that removes an item removes one whose report count
\* is above 10 at that moment.
C20_DeleteOnlyAboveThreshold ==
    [][\A p \in Procs :
          (pc[p] = "delete" /\ pc'[p] # pc[p] /\ arg[p].id \in DOMAIN store
                /\ arg[p].id \notin DOMAIN store')
              => Count(store[arg[p].id], "report") > ReportThreshold]_vars

====
